---- MODULE Spec2Model ----
(***************************************************************************)
(* Model of the Dynamics 365 gateway (class Dynamics365, src/src/index.ts) *)
(* and of the tool handlers registered on top of it (src/build/tools.js).  *)
(*                                                                         *)
(* Text is a sequence of string tokens, so that concatenation, prefixes    *)
(* and containment of one text in another can be computed.  A JSON /       *)
(* JavaScript value is a record [t, s, f]: t its type tag, s the content   *)
(* of a string (or the literal text of an array), f the fields of an       *)
(* object as a sequence of <<key, value>> pairs.                           *)
(***************************************************************************)
EXTENDS Integers, Sequences, FiniteSets, TLC

VARIABLES d365, call

vars == <<d365, call>>

(***************************************************************************)
(* Bounds of the model.                                                    *)
(***************************************************************************)
\* the base URL is configured with 0..MaxTrailingSlashes trailing slashes
MaxTrailingSlashes == 2
\* the credential provider hands out one of NumTokens different tokens
NumTokens == 2

(***************************************************************************)
(* JavaScript / JSON values.                                               *)
(***************************************************************************)
JUndefined == [t |-> "undefined", s |-> "", f |-> <<>>]
JNull == [t |-> "null", s |-> "", f |-> <<>>]
JStr(str) == [t |-> "string", s |-> str, f |-> <<>>]
JArr(lit) == [t |-> "array", s |-> lit, f |-> <<>>]
JObj(fields) == [t |-> "object", s |-> "", f |-> fields]

\* JavaScript truthiness: undefined, null and "" are falsy
Truthy(v) == /\ v.t \notin {"undefined", "null"}
             /\ (v.t = "string" => v.s # "")

\* reading a property of null or undefined throws a TypeError
CanRead(v) == v.t \notin {"undefined", "null"}

HasKey(v, k) == \E i \in 1..Len(v.f) : v.f[i][1] = k

\* v.k for a readable v: the field's value, undefined when there is none
Get(v, k) ==
  IF HasKey(v, k)
    THEN v.f[CHOOSE i \in 1..Len(v.f) : v.f[i][1] = k][2]
    ELSE JUndefined

\* v.k = x on an object: replaces the field in place or adds it at the end
Set(v, k, x) ==
  IF HasKey(v, k)
    THEN [v EXCEPT !.f = [i \in 1..Len(v.f) |->
                            IF v.f[i][1] = k THEN <<k, x>> ELSE v.f[i]]]
    ELSE [v EXCEPT !.f = Append(v.f, <<k, x>>)]

\* `${v}` in a template literal
Interpolate(v) ==
  CASE v.t = "undefined" -> <<"undefined">>
    [] v.t = "null" -> <<"null">>
    [] v.t = "string" -> <<v.s>>
    [] v.t = "array" -> <<v.s>>
    [] OTHER -> <<"[object Object]">>

\* an optional text: JSON.stringify(undefined) is undefined, not a string
NoText == [defined |-> FALSE, text |-> <<>>]
SomeText(txt) == [defined |-> TRUE, text |-> txt]

RECURSIVE StringifyFields(_, _, _)
RECURSIVE StringifyValue(_, _)
\* the fields of an object from the i-th on; fields holding undefined are
\* left out; pretty printing (indent 2) puts each field on a line of its own
StringifyFields(fields, pretty, first) ==
  IF fields = <<>> THEN <<>>
  ELSE LET k == Head(fields)[1]
           x == Head(fields)[2]
       IN IF x.t = "undefined"
            THEN StringifyFields(Tail(fields), pretty, first)
            ELSE (IF first THEN <<>> ELSE <<",">>)
                 \o (IF pretty THEN <<"\n  ">> ELSE <<>>)
                 \o <<"\"", k, "\"", ":">>
                 \o (IF pretty THEN <<" ">> ELSE <<>>)
                 \o StringifyValue(x, pretty)
                 \o StringifyFields(Tail(fields), pretty, FALSE)

StringifyValue(v, pretty) ==
  CASE v.t = "null" -> <<"null">>
    [] v.t = "string" -> <<"\"", v.s, "\"">>
    [] v.t = "array" -> <<v.s>>
    [] v.t = "object" ->
         LET inner == StringifyFields(v.f, pretty, TRUE)
         IN <<"{">> \o inner
            \o (IF pretty /\ inner # <<>> THEN <<"\n">> ELSE <<>>)
            \o <<"}">>
    [] OTHER -> <<>>

\* JSON.stringify(v) and JSON.stringify(v, null, 2)
Stringify(v, pretty) ==
  IF v.t = "undefined" THEN NoText ELSE SomeText(StringifyValue(v, pretty))

\* a scalar JSON text: null, "..." or an array literal
IsArrayLit(tok) == tok \in {"[]", "[{\"accountid\":\"acc1\"}]"}
ScalarLen(txt) ==
  IF txt = <<>> THEN 0
  ELSE IF Head(txt) = "null" \/ IsArrayLit(Head(txt)) THEN 1
  ELSE IF Len(txt) >= 3 /\ txt[1] = "\"" /\ txt[3] = "\"" /\ txt[2] # "\"" THEN 3
  ELSE 0
ScalarValue(txt) ==
  IF Head(txt) = "null" THEN JNull
  ELSE IF IsArrayLit(Head(txt)) THEN JArr(Head(txt))
  ELSE JStr(txt[2])

RECURSIVE ParseFields(_)
\* the fields between the braces of an object: [ok, f]
ParseFields(txt) ==
  IF Len(txt) < 5 \/ txt[1] # "\"" \/ txt[3] # "\"" \/ txt[4] # ":"
    THEN [ok |-> FALSE, f |-> <<>>]
  ELSE LET rest == SubSeq(txt, 5, Len(txt))
           n == ScalarLen(rest)
           after == SubSeq(rest, n + 1, Len(rest))
       IN IF n = 0 THEN [ok |-> FALSE, f |-> <<>>]
          ELSE IF after = <<>>
            THEN [ok |-> TRUE, f |-> << <<txt[2], ScalarValue(rest)>> >>]
          ELSE IF Head(after) # "," THEN [ok |-> FALSE, f |-> <<>>]
          ELSE LET more == ParseFields(Tail(after))
               IN [ok |-> more.ok,
                   f |-> << <<txt[2], ScalarValue(rest)>> >> \o more.f]

\* response.json(): [ok, value]; ok is FALSE when the text is not JSON
ParseJson(txt) ==
  IF txt # <<>> /\ ScalarLen(txt) = Len(txt)
    THEN [ok |-> TRUE, value |-> ScalarValue(txt)]
  ELSE IF Len(txt) >= 2 /\ Head(txt) = "{" /\ txt[Len(txt)] = "}"
    THEN IF Len(txt) = 2 THEN [ok |-> TRUE, value |-> JObj(<<>>)]
         ELSE LET p == ParseFields(SubSeq(txt, 2, Len(txt) - 1))
              IN [ok |-> p.ok, value |-> IF p.ok THEN JObj(p.f) ELSE JUndefined]
  ELSE [ok |-> FALSE, value |-> JUndefined]

(***************************************************************************)
(* Errors.  Every error the code raises is a plain Error told apart only   *)
(* by the text its message starts with; a TypeError comes from the         *)
(* runtime.  A thrown value is [isError, name, message].                   *)
(***************************************************************************)
NewError(msg) == [isError |-> TRUE, name |-> "Error", message |-> msg]
TypeError(msg) == [isError |-> TRUE, name |-> "TypeError", message |-> msg]
\* a thrown value that is no Error object; message holds String(value)
ThrownValue(msg) == [isError |-> FALSE, name |-> "", message |-> msg]
NoError == [isError |-> FALSE, name |-> "", message |-> <<>>]

\* error instanceof Error ? error.message : String(error)
MessageOf(thrown) == thrown.message

ContactsIdRequired == "Account ID is required to fetch contacts."
OpportunitiesIdRequired == "Account ID is required to fetch opportunities."
CreateDataRequired == "Account data is required to create an account."
UpdateIdRequired == "Account ID is required to update an account."
UpdateDataRequired == "Account data is required to update an account."
TokenInvalid == "Token acquisition failed: response is null or invalid."
AuthPrefix == "Failed to authenticate with Dynamics 365: "
ApiPrefix == "Failed to make API request: "
StatusPrefix == "API request failed with status: "
StatusInfix == ", message: "

(***************************************************************************)
(* The identity configuration and URLs.  A URL is a text in which every    *)
(* slash that matters is a token of its own.                               *)
(***************************************************************************)
Host == "org.crm.dynamics.com"
Schemes == {"https:", "http:"}
Slashes(n) == [i \in 1..n |-> "/"]

\* D365_URL as the environment may give it: index.ts only rejects the empty
\* string, so a value without a scheme and any number of trailing slashes
\* get through
BaseUrls ==
  { p \o Slashes(n) : p \in {<<"https:", "/", "/", Host>>, <<Host>>},
                      n \in 0..MaxTrailingSlashes }

\* new URL(url): the scheme, then slashes, then the host; [ok, origin],
\* ok FALSE where the constructor throws TypeError: Invalid URL
UrlParse(url) ==
  LET hosts == { i \in 2..Len(url) : url[i] # "/" }
      first == CHOOSE i \in hosts : \A j \in hosts : i <= j
  IN IF url # <<>> /\ Head(url) \in Schemes /\ hosts # {}
       THEN [ok |-> TRUE, origin |-> <<Head(url), "/", "/", url[first]>>]
       ELSE [ok |-> FALSE, origin |-> <<>>]

Tokens == { "t" \o ToString(i) : i \in 1..NumTokens }

(***************************************************************************)
(* One invocation of a gateway method, and its caller.                     *)
(***************************************************************************)
NoHeaders == [h \in {} |-> <<>>]
NoReq == [endpoint |-> <<>>, method |-> "", body |-> JUndefined,
          extra |-> NoHeaders]
Pending == [state |-> "pending", value |-> JUndefined, error |-> NoError]
Fulfilled(v) == [state |-> "fulfilled", value |-> v, error |-> NoError]
Rejected(e) == [state |-> "rejected", value |-> JUndefined, error |-> e]
NoPayload == [made |-> FALSE, text |-> NoText, isError |-> FALSE]

Idle == [pc |-> "idle", caller |-> "none", op |-> "none",
         accountId |-> JUndefined, accountData |-> JUndefined,
         stage |-> 0, req |-> NoReq, token |-> "", data |-> JUndefined,
         log |-> <<>>, outcome |-> Pending, payload |-> NoPayload]

\* what an invocation did, in order: "acquire" the call to the credential
\* provider (url: the scope asked for), "token" how the provider settled
\* (kind, token), "fetch" the HTTP request sent, "response" how it settled
\* (kind, status, body: the text read, if any)
Event(ev, stage) ==
  [ev |-> ev, stage |-> stage, kind |-> "", token |-> "", method |-> "",
   endpoint |-> <<>>, url |-> <<>>, headers |-> NoHeaders, body |-> NoText,
   status |-> 0]

Settle(st, outcome) == [st EXCEPT !.pc = "settled", !.outcome = outcome]

(***************************************************************************)
(* The credential provider (Dynamics365.authenticate).                     *)
(***************************************************************************)
\* scopes: [`${new URL(this.d365Url).origin}/.default`]
Scope(origin) == origin \o <<"/.default">>

\* how msalInstance.acquireTokenByClientCredential may settle
ProviderOutcomes ==
  { [kind |-> "reject", thrown |-> NewError(<<"invalid_client">>),
     accessToken |-> ""],
    [kind |-> "reject", thrown |-> ThrownValue(<<"ETIMEDOUT">>),
     accessToken |-> ""],
    [kind |-> "null", thrown |-> NoError, accessToken |-> ""],
    [kind |-> "response", thrown |-> NoError, accessToken |-> ""] }
  \cup { [kind |-> "response", thrown |-> NoError, accessToken |-> t] :
         t \in Tokens }

\* mutant: the response is not checked for its accessToken
UsableToken_AnyResponse(r) == r.kind = "response"

\* response && response.accessToken
UsableToken(r) == r.kind = "response" /\ r.accessToken # ""

\* the error authenticate() rejects with when the provider gave no token
AuthError(r) ==
  LET inner == IF r.kind = "reject" THEN r.thrown
               ELSE NewError(<<TokenInvalid>>)
  IN NewError(<<AuthPrefix>> \o MessageOf(inner))

\* the try/catch of authenticate(): [ok, token, error]
AuthResult(r) ==
  IF UsableToken(r)
    THEN [ok |-> TRUE, token |-> r.accessToken, error |-> NoError]
    ELSE [ok |-> FALSE, token |-> "", error |-> AuthError(r)]

(***************************************************************************)
(* The request primitive (Dynamics365.makeApiRequest).                     *)
(***************************************************************************)
EndsWithSlash(url) == url # <<>> /\ url[Len(url)] = "/"

\* baseUrl = d365Url.endsWith("/") ? d365Url : `${d365Url}/`
NormalizeBase(url) == IF EndsWithSlash(url) THEN url ELSE url \o <<"/">>

\* url = `${baseUrl}${endpoint}`
BuildUrl(base, endpoint) == NormalizeBase(base) \o endpoint

StandardHeaders(token) ==
  ("Authorization" :> <<"Bearer ", token>>)
  @@ ("Accept" :> <<"application/json">>)
  @@ ("Content-Type" :> <<"application/json">>)
  @@ ("OData-MaxVersion" :> <<"4.0">>)
  @@ ("OData-Version" :> <<"4.0">>)

\* { ...standard, ...additionalHeaders }: the additional ones win
BuildHeaders(token, extra) == extra @@ StandardHeaders(token)

\* body ? JSON.stringify(body) : undefined
RequestBody(body) == IF Truthy(body) THEN Stringify(body, FALSE) ELSE NoText

\* makeApiRequest up to the first await: authenticate() parses the base URL
\* outside its try block and then calls the credential provider
makeApiRequest(st, endpoint, method, body, extra) ==
  LET s1 == [st EXCEPT !.stage = @ + 1,
                       !.req = [endpoint |-> endpoint, method |-> method,
                                body |-> body, extra |-> extra]]
      u == UrlParse(d365.d365Url)
  IN IF u.ok
       THEN [s1 EXCEPT !.pc = "awaitToken",
                       !.log = Append(@, [Event("acquire", s1.stage)
                                            EXCEPT !.url = Scope(u.origin)])]
       ELSE Settle(s1, Rejected(TypeError(<<"Invalid URL">>)))

\* mutant: the token of the invocation's previous request is used again
FetchEvent_Cached(st, token) ==
  LET used == IF st.token # "" THEN st.token ELSE token
  IN [Event("fetch", st.stage) EXCEPT
        !.token = used,
        !.method = st.req.method,
        !.endpoint = st.req.endpoint,
        !.url = BuildUrl(d365.d365Url, st.req.endpoint),
        !.headers = BuildHeaders(used, st.req.extra),
        !.body = RequestBody(st.req.body)]

\* mutant: the token is kept in a field of the gateway instance, where an
\* invocation in flight at the same time has put its own
FetchEvent_Shared(st, token) ==
  LET others == { d \in DOMAIN call : call[d] # st /\ call[d].token # "" }
      used == IF others # {} THEN call[CHOOSE d \in others : TRUE].token
                             ELSE token
  IN [Event("fetch", st.stage) EXCEPT
        !.token = used,
        !.method = st.req.method,
        !.endpoint = st.req.endpoint,
        !.url = BuildUrl(d365.d365Url, st.req.endpoint),
        !.headers = BuildHeaders(used, st.req.extra),
        !.body = RequestBody(st.req.body)]

\* the fetch(url, {method, headers, body}) of a request with this token
FetchEvent(st, token) ==
  [Event("fetch", st.stage) EXCEPT
     !.token = token,
     !.method = st.req.method,
     !.endpoint = st.req.endpoint,
     !.url = BuildUrl(d365.d365Url, st.req.endpoint),
     !.headers = BuildHeaders(token, st.req.extra),
     !.body = RequestBody(st.req.body)]

\* the provider has settled with r: authenticate() returns or throws, and
\* makeApiRequest goes on to send the request
AfterAuthenticate(st, r) ==
  LET a == AuthResult(r)
      tokenEv == [Event("token", st.stage) EXCEPT !.kind = r.kind,
                                                  !.token = r.accessToken]
  IN IF a.ok
       THEN [st EXCEPT !.pc = "awaitFetch", !.token = a.token,
                       !.log = @ \o <<tokenEv, FetchEvent(st, a.token)>>]
       ELSE Settle([st EXCEPT !.log = Append(@, tokenEv)], Rejected(a.error))

\* what the resource API may answer
Statuses == {200, 404}
WhoAmIBody ==
  <<"{", "\"", "UserId", "\"", ":", "\"", "u1", "\"", ",",
         "\"", "BusinessUnitId", "\"", ":", "\"", "b1", "\"", ",",
         "\"", "OrganizationId", "\"", ":", "\"", "o1", "\"", "}">>
UserBody ==
  <<"{", "\"", "domainname", "\"", ":", "\"", "jdoe", "\"", ",",
         "\"", "fullname", "\"", ":", "\"", "Jane Doe", "\"", "}">>
AccountsBody == <<"{", "\"", "value", "\"", ":", "[]", "}">>
BodyTexts ==
  { <<"not found">>, <<"null">>, <<"{", "}">>, WhoAmIBody, UserBody,
    AccountsBody }

\* how fetch() and the reading of the body may settle: the request fails,
\* or a response arrives whose body can be read or breaks off
FetchOutcomes ==
  { [kind |-> "reject", thrown |-> TypeError(<<"fetch failed">>),
     status |-> 0, readable |-> FALSE, body |-> <<>>] }
  \cup { [kind |-> "response", thrown |-> NoError, status |-> s,
          readable |-> TRUE, body |-> b] : s \in Statuses, b \in BodyTexts }
  \cup { [kind |-> "response", thrown |-> NoError, status |-> s,
          readable |-> FALSE, body |-> <<>>] : s \in Statuses }

\* response.ok
ResponseOk(r) == r.status >= 200 /\ r.status <= 299

\* mutant: the body text is left out of the message
StatusError_NoBody(r) == NewError(<<StatusPrefix, ToString(r.status)>>)

\* `API request failed with status: ${status}, message: ${text}`
StatusError(r) ==
  NewError(<<StatusPrefix, ToString(r.status), StatusInfix>> \o r.body)

\* what is thrown inside the try block of makeApiRequest, if anything
FetchThrown(r) ==
  IF r.kind = "reject" THEN r.thrown
  ELSE IF ~r.readable THEN TypeError(<<"terminated">>)
  ELSE IF ~ResponseOk(r) THEN StatusError(r)
  ELSE IF ~ParseJson(r.body).ok
    THEN [isError |-> TRUE, name |-> "SyntaxError",
          message |-> <<"Unexpected token in JSON">>]
  ELSE NoError

\* the catch block: everything thrown is wrapped in a new Error
ApiError(thrown) == NewError(<<ApiPrefix>> \o MessageOf(thrown))

\* the try/catch of makeApiRequest: [ok, value, error]
ApiResult(r) ==
  LET thrown == FetchThrown(r)
  IN IF thrown = NoError
       THEN [ok |-> TRUE, value |-> ParseJson(r.body).value, error |-> NoError]
       ELSE [ok |-> FALSE, value |-> JUndefined, error |-> ApiError(thrown)]

(***************************************************************************)
(* The typed operations.  Each is given the invocation record st holding   *)
(* its arguments and yields the record at its first await or at its end.   *)
(***************************************************************************)
WhoAmIEndpoint == <<"api/data/v9.2/WhoAmI">>
AccountsEndpoint == <<"api/data/v9.2/accounts">>
SystemUserEndpoint(userId) ==
  <<"api/data/v9.2/systemusers(">> \o Interpolate(userId) \o <<")">>
ContactsEndpoint(accountId) ==
  <<"api/data/v9.2/contacts?$filter=_parentcustomerid_value eq ">>
  \o Interpolate(accountId)
OpportunitiesEndpoint(accountId) ==
  <<"api/data/v9.2/opportunities?$filter=_customerid_value eq ">>
  \o Interpolate(accountId)
AccountEndpoint(accountId) ==
  <<"api/data/v9.2/accounts(">> \o Interpolate(accountId) \o <<")">>
PreferHeader == "Prefer" :> <<"odata.include-annotations=\"*\"">>

\* mutant: only undefined and null count as missing (v == null), the empty
\* string does not
Missing_NullishOnly(v) == v.t \in {"undefined", "null"}

\* !accountId and !accountData
Missing(v) == ~Truthy(v)

makeWhoAmIRequest(st) ==
  makeApiRequest(st, WhoAmIEndpoint, "GET", JUndefined, NoHeaders)

\* if (data && data.UserId)
HasUserId(data) == Truthy(data) /\ Truthy(Get(data, "UserId"))

\* makeWhoAmIRequest after its first request returned data
WhoAmIAfterFirst(st, data) ==
  IF HasUserId(data)
    THEN makeApiRequest([st EXCEPT !.data = data],
                        SystemUserEndpoint(Get(data, "UserId")), "GET",
                        JUndefined, PreferHeader)
    ELSE Settle([st EXCEPT !.data = data], Fulfilled(data))

\* data.UserName = userDetails.domainname; data.FullName = userDetails.fullname
MergeUser(data, userDetails) ==
  Set(Set(data, "UserName", Get(userDetails, "domainname")),
      "FullName", Get(userDetails, "fullname"))

\* makeWhoAmIRequest after its second request returned userDetails
WhoAmIAfterSecond(st, userDetails) ==
  IF CanRead(userDetails)
    THEN LET merged == MergeUser(st.data, userDetails)
         IN Settle([st EXCEPT !.data = merged], Fulfilled(merged))
    ELSE Settle(st, Rejected(TypeError(
           <<"Cannot read properties of null (reading 'domainname')">>)))

getAccounts(st) ==
  makeApiRequest(st, AccountsEndpoint, "GET", JUndefined, NoHeaders)

getAssociatedContacts(st) ==
  IF Missing(st.accountId)
    THEN Settle(st, Rejected(NewError(<<ContactsIdRequired>>)))
    ELSE makeApiRequest(st, ContactsEndpoint(st.accountId), "GET", JUndefined,
                        NoHeaders)

getAssociatedOpportunities(st) ==
  IF Missing(st.accountId)
    THEN Settle(st, Rejected(NewError(<<OpportunitiesIdRequired>>)))
    ELSE makeApiRequest(st, OpportunitiesEndpoint(st.accountId), "GET",
                        JUndefined, NoHeaders)

createAccount(st) ==
  IF Missing(st.accountData)
    THEN Settle(st, Rejected(NewError(<<CreateDataRequired>>)))
    ELSE makeApiRequest(st, AccountsEndpoint, "POST", st.accountData,
                        NoHeaders)

\* mutant: the account data is checked before the account id
updateAccount_DataFirst(st) ==
  IF Missing(st.accountData)
    THEN Settle(st, Rejected(NewError(<<UpdateDataRequired>>)))
  ELSE IF Missing(st.accountId)
    THEN Settle(st, Rejected(NewError(<<UpdateIdRequired>>)))
  ELSE makeApiRequest(st, AccountEndpoint(st.accountId), "PATCH",
                      st.accountData, NoHeaders)

updateAccount(st) ==
  IF Missing(st.accountId)
    THEN Settle(st, Rejected(NewError(<<UpdateIdRequired>>)))
  ELSE IF Missing(st.accountData)
    THEN Settle(st, Rejected(NewError(<<UpdateDataRequired>>)))
  ELSE makeApiRequest(st, AccountEndpoint(st.accountId), "PATCH",
                      st.accountData, NoHeaders)

\* mutant: a failed request is sent once more
AfterRequest_Retry(st, res) ==
  IF ~res.ok /\ st.stage < 2 /\ st.op # "makeWhoAmIRequest"
    THEN makeApiRequest(st, st.req.endpoint, st.req.method, st.req.body,
                        st.req.extra)
  ELSE IF ~res.ok THEN Settle(st, Rejected(res.error))
  ELSE IF st.op = "makeWhoAmIRequest"
    THEN IF st.stage = 1 THEN WhoAmIAfterFirst(st, res.value)
                         ELSE WhoAmIAfterSecond(st, res.value)
  ELSE Settle(st, Fulfilled(res.value))

\* the operation that awaited makeApiRequest goes on with its result
AfterRequest(st, res) ==
  IF ~res.ok THEN Settle(st, Rejected(res.error))
  ELSE IF st.op = "makeWhoAmIRequest"
    THEN IF st.stage = 1 THEN WhoAmIAfterFirst(st, res.value)
                         ELSE WhoAmIAfterSecond(st, res.value)
  ELSE Settle(st, Fulfilled(res.value))

\* fetch has settled with r
AfterFetch(st, r) ==
  LET responseEv == [Event("response", st.stage) EXCEPT
                       !.kind = r.kind,
                       !.status = r.status,
                       !.body = IF r.readable THEN SomeText(r.body) ELSE NoText]
  IN AfterRequest([st EXCEPT !.log = Append(@, responseEv)], ApiResult(r))

(***************************************************************************)
(* The tool handlers (registerTools).                                      *)
(***************************************************************************)
CredentialsHint == ", please check your credentials and try again."
InputHint == ", please check your input and try again."

TextPayload(txt) == [made |-> TRUE, text |-> txt, isError |-> FALSE]

\* the catch block of a handler
ErrorPayload(thrown, hint) ==
  [made |-> TRUE,
   text |-> SomeText(<<"Error: ">>
                     \o (IF thrown.isError THEN thrown.message
                                           ELSE <<"Unknown error">>)
                     \o <<hint>>),
   isError |-> TRUE]

NullRead(prop) ==
  TypeError(<<"Cannot read properties of null (reading '", prop, "')">>)

\* the try block of get-user-info, given the value makeWhoAmIRequest returned
UserInfoText(response) ==
  IF CanRead(response)
    THEN TextPayload(SomeText(
           <<"Hi ">> \o Interpolate(Get(response, "FullName"))
           \o <<", your user ID is ">> \o Interpolate(Get(response, "UserId"))
           \o <<" and your business unit ID is ">>
           \o Interpolate(Get(response, "BusinessUnitId"))))
    ELSE ErrorPayload(NullRead("FullName"), CredentialsHint)

\* the try block of fetch-accounts
AccountsText(response) ==
  IF CanRead(response)
    THEN TextPayload(Stringify(Get(response, "value"), TRUE))
    ELSE ErrorPayload(NullRead("value"), CredentialsHint)

\* the try block of the other three handlers
JsonText(response) == TextPayload(Stringify(response, TRUE))

ToolHint(op) ==
  IF op \in {"makeWhoAmIRequest", "getAccounts"} THEN CredentialsHint
                                                  ELSE InputHint

\* the payload the handler of the tool calling op returns
ToolPayload(op, outcome) ==
  IF outcome.state = "rejected" THEN ErrorPayload(outcome.error, ToolHint(op))
  ELSE IF op = "makeWhoAmIRequest" THEN UserInfoText(outcome.value)
  ELSE IF op = "getAccounts" THEN AccountsText(outcome.value)
  ELSE JsonText(outcome.value)

(***************************************************************************)
(* Actions.                                                                *)
(***************************************************************************)
\* accountId is a string for every caller; accountData is any value for a
\* direct caller and an object for a tool (the tool's schema)
AccountIds == {JStr(""), JStr("acc1")}
Objects == {JObj(<<>>), JObj(<< <<"name", JStr("X")>> >>)}
AccountDatas == {JUndefined, JNull} \cup Objects

Begin(caller, op, accountId, accountData) ==
  [Idle EXCEPT !.caller = caller, !.op = op, !.accountId = accountId,
               !.accountData = accountData]

Tool_get_user_info(c) ==
  /\ call[c].pc = "idle"
  /\ call' = [call EXCEPT ![c] = makeWhoAmIRequest(
                Begin("tool", "makeWhoAmIRequest", JUndefined, JUndefined))]
  /\ UNCHANGED d365

Tool_fetch_accounts(c) ==
  /\ call[c].pc = "idle"
  /\ call' = [call EXCEPT ![c] = getAccounts(
                Begin("tool", "getAccounts", JUndefined, JUndefined))]
  /\ UNCHANGED d365

Tool_get_associated_opportunities(c) ==
  /\ call[c].pc = "idle"
  /\ \E id \in AccountIds :
       call' = [call EXCEPT ![c] = getAssociatedOpportunities(
                  Begin("tool", "getAssociatedOpportunities", id, JUndefined))]
  /\ UNCHANGED d365

Tool_create_account(c) ==
  /\ call[c].pc = "idle"
  /\ \E data \in Objects :
       call' = [call EXCEPT ![c] = createAccount(
                  Begin("tool", "createAccount", JUndefined, data))]
  /\ UNCHANGED d365

Tool_update_account(c) ==
  /\ call[c].pc = "idle"
  /\ \E id \in AccountIds, data \in Objects :
       call' = [call EXCEPT ![c] = updateAccount(
                  Begin("tool", "updateAccount", id, data))]
  /\ UNCHANGED d365

\* the gateway method op called with these arguments
Invoke(caller, op, id, data) ==
  CASE op = "makeWhoAmIRequest" ->
         makeWhoAmIRequest(Begin(caller, op, JUndefined, JUndefined))
    [] op = "getAccounts" ->
         getAccounts(Begin(caller, op, JUndefined, JUndefined))
    [] op = "getAssociatedContacts" ->
         getAssociatedContacts(Begin(caller, op, id, JUndefined))
    [] op = "getAssociatedOpportunities" ->
         getAssociatedOpportunities(Begin(caller, op, id, JUndefined))
    [] op = "createAccount" ->
         createAccount(Begin(caller, op, JUndefined, data))
    [] op = "updateAccount" ->
         updateAccount(Begin(caller, op, id, data))

Operations ==
  {"makeWhoAmIRequest", "getAccounts", "getAssociatedContacts",
   "getAssociatedOpportunities", "createAccount", "updateAccount"}

\* any other caller of the gateway's public methods
DirectCall(c) ==
  /\ call[c].pc = "idle"
  /\ \E op \in Operations, id \in AccountIds, data \in AccountDatas :
       call' = [call EXCEPT ![c] = Invoke("direct", op, id, data)]
  /\ UNCHANGED d365

\* the credential provider settles
authenticate(c) ==
  /\ call[c].pc = "awaitToken"
  /\ \E r \in ProviderOutcomes :
       call' = [call EXCEPT ![c] = AfterAuthenticate(call[c], r)]
  /\ UNCHANGED d365

\* the resource API answers, or the request fails
fetch(c) ==
  /\ call[c].pc = "awaitFetch"
  /\ \E r \in FetchOutcomes :
       call' = [call EXCEPT ![c] = AfterFetch(call[c], r)]
  /\ UNCHANGED d365

\* the handler that awaited the gateway method returns its payload
ToolRespond(c) ==
  /\ call[c].pc = "settled"
  /\ call[c].caller = "tool"
  /\ call' = [call EXCEPT ![c] = [@ EXCEPT
                !.pc = "responded",
                !.payload = ToolPayload(call[c].op, call[c].outcome)]]
  /\ UNCHANGED d365

\* the caller has its answer; nothing of the invocation is kept
Return(c) ==
  /\ \/ call[c].pc = "settled" /\ call[c].caller = "direct"
     \/ call[c].pc = "responded"
  /\ call' = [call EXCEPT ![c] = Idle]
  /\ UNCHANGED d365

\* new Dynamics365(clientId, clientSecret, tenantId, D365_BASE_URL)
Dynamics365(url) ==
  [clientId |-> "client-id", clientSecret |-> "client-secret",
   tenantId |-> "tenant-id", d365Url |-> url]

InitFor(C) ==
  /\ d365 \in { Dynamics365(url) : url \in BaseUrls }
  /\ call = [c \in C |-> Idle]

NextFor(C) ==
  \E c \in C :
    \/ Tool_get_user_info(c)
    \/ Tool_fetch_accounts(c)
    \/ Tool_get_associated_opportunities(c)
    \/ Tool_create_account(c)
    \/ Tool_update_account(c)
    \/ DirectCall(c)
    \/ authenticate(c)
    \/ fetch(c)
    \/ ToolRespond(c)
    \/ Return(c)

(***************************************************************************)
(* Invocations in flight at the same time.  The protocol host may call a   *)
(* tool while another tool's handler is still awaiting the gateway, so the *)
(* steps of the handlers interleave at their awaits.  To keep the state    *)
(* space of two interleaved invocations small the environment answers from *)
(* a part of its outcomes: the provider rejects or gives a token, the API  *)
(* rejects, answers 404 "not found", or answers 200 with one of three      *)
(* bodies.                                                                 *)
(***************************************************************************)
ConcProviderOutcomes ==
  { r \in ProviderOutcomes :
      \/ r.kind = "reject" /\ r.thrown.isError
      \/ r.kind = "response" /\ r.accessToken # "" }

ConcFetchOutcomes ==
  { r \in FetchOutcomes :
      \/ r.kind = "reject"
      \/ r.readable /\ r.status = 404 /\ r.body = <<"not found">>
      \/ r.readable /\ r.status = 200
           /\ r.body \in {WhoAmIBody, UserBody, <<"null">>} }

\* the credential provider settles for invocation c
authenticateConc(c) ==
  /\ call[c].pc = "awaitToken"
  /\ \E r \in ConcProviderOutcomes :
       call' = [call EXCEPT ![c] = AfterAuthenticate(call[c], r)]
  /\ UNCHANGED d365

\* the resource API answers invocation c, or its request fails
fetchConc(c) ==
  /\ call[c].pc = "awaitFetch"
  /\ \E r \in ConcFetchOutcomes :
       call' = [call EXCEPT ![c] = AfterFetch(call[c], r)]
  /\ UNCHANGED d365

NextConc(C) ==
  \E c \in C :
    \/ Tool_get_user_info(c)
    \/ Tool_fetch_accounts(c)
    \/ Tool_get_associated_opportunities(c)
    \/ Tool_create_account(c)
    \/ Tool_update_account(c)
    \/ authenticateConc(c)
    \/ fetchConc(c)
    \/ ToolRespond(c)
    \/ Return(c)

\* two tool invocations on the one gateway instance, interleaved
SpecConc == InitFor({1, 2}) /\ [][NextConc({1, 2})]_vars

\* one invocation at a time
Init == InitFor({1})
Next == NextFor({1})
Spec == Init /\ [][Next]_vars

(***************************************************************************)
(* Vocabulary of the properties.  They read the arguments given, the log   *)
(* of what the invocation did and what the environment answered, and the   *)
(* outcome; none of them uses the operators that decide the behaviour.     *)
(***************************************************************************)
Calls == DOMAIN call

Events(st, ev) == { i \in 1..Len(st.log) : st.log[i].ev = ev }
Count(st, ev) == Cardinality(Events(st, ev))

\* the invocation has ended, whether or not a handler has answered yet
Ended(st) == st.pc \in {"settled", "responded"}
Failed(st) == Ended(st) /\ st.outcome.state = "rejected"
Succeeded(st) == Ended(st) /\ st.outcome.state = "fulfilled"

\* the three kinds of failure, recognised by class and leading text
ValidationMessages ==
  {ContactsIdRequired, OpportunitiesIdRequired, CreateDataRequired,
   UpdateIdRequired, UpdateDataRequired}
Kind(e) ==
  IF e.name # "Error" \/ e.message = <<>> THEN "Unclassified"
  ELSE IF e.message = <<Head(e.message)>> /\ Head(e.message) \in ValidationMessages
    THEN "ValidationError"
  ELSE IF Head(e.message) = AuthPrefix THEN "AuthenticationError"
  ELSE IF Head(e.message) = ApiPrefix THEN "ApiRequestError"
  ELSE "Unclassified"

\* text sub occurs in text txt
Contains(txt, sub) ==
  \E k \in 0..(Len(txt) - Len(sub)) : SubSeq(txt, k + 1, k + Len(sub)) = sub

EmptyId(v) == v.t = "undefined" \/ (v.t = "string" /\ v.s = "")
AbsentData(v) == v.t \in {"undefined", "null"}

\* the precondition of the operation does not hold for its arguments
PreconditionFails(st) ==
  \/ st.op \in {"getAssociatedContacts", "getAssociatedOpportunities",
                "updateAccount"} /\ EmptyId(st.accountId)
  \/ st.op \in {"createAccount", "updateAccount"} /\ AbsentData(st.accountData)

\* the provider answered without a usable token
ProviderFailed(e) ==
  e.ev = "token" /\ (e.kind # "response" \/ e.token = "")
ProviderGaveToken(e) == e.ev = "token" /\ ~ProviderFailed(e)

\* the resource API answered with a status outside 200..299 and its body
\* text was read
ErrorStatus(e) ==
  /\ e.ev = "response" /\ e.kind = "response"
  /\ (e.status < 200 \/ e.status > 299)
  /\ e.body.defined

\* the request failed: no response, an error status, or a body that did not
\* arrive or is not JSON
RequestFailed(e) ==
  /\ e.ev = "response"
  /\ \/ e.kind # "response"
     \/ e.status < 200 \/ e.status > 299
     \/ ~e.body.defined
     \/ ~ParseJson(e.body.text).ok

\* the value decoded from the response to the n-th request of the invocation
\* (the n-th response is the 4n-th thing the invocation did)
Answered(st, n) ==
  /\ Len(st.log) >= 4 * n
  /\ st.log[4 * n].ev = "response"
  /\ ~RequestFailed(st.log[4 * n])
Decoded(st, n) == ParseJson(st.log[4 * n].body.text).value

\* the decoded value is an object with a non-empty UserId
CarriesUserId(v) ==
  /\ v.t = "object"
  /\ \E i \in 1..Len(v.f) :
       v.f[i][1] = "UserId" /\ v.f[i][2].t = "string" /\ v.f[i][2].s # ""
UserIdOf(v) == (CHOOSE p \in { v.f[i] : i \in 1..Len(v.f) } : p[1] = "UserId")[2].s

\* field k of v, undefined when v has none
Field(v, k) ==
  IF \E i \in 1..Len(v.f) : v.f[i][1] = k
    THEN (CHOOSE p \in { v.f[i] : i \in 1..Len(v.f) } : p[1] = k)[2]
    ELSE JUndefined

\* url is base and endpoint with exactly one slash between them
OneSlashBetween(url, endpoint) ==
  LET n == Len(url) - Len(endpoint)
  IN /\ n >= 2
     /\ SubSeq(url, n + 1, Len(url)) = endpoint
     /\ Head(endpoint) # "/"
     /\ url[n] = "/"
     /\ url[n - 1] # "/"

\* C1: an operation called with its precondition unmet fails with a
\* ValidationError, and that invocation has called neither the credential
\* provider nor the resource API.
C1_ValidationBeforeNetwork ==
  \A c \in Calls :
    LET st == call[c]
    IN (st.pc # "idle" /\ PreconditionFails(st)) =>
         /\ Failed(st)
         /\ Kind(st.outcome.error) = "ValidationError"
         /\ st.log = <<>>

C1_Witness ==
  \E c \in Calls :
    /\ call[c].op = "updateAccount"
    /\ call[c].accountId = JStr("")
    /\ call[c].accountData = JObj(<< <<"name", JStr("X")>> >>)
    /\ Failed(call[c])

\* C2 as claimed: whenever the provider fails or gives no usable token the
\* operation fails with an AuthenticationError, which is no ApiRequestError,
\* and the invocation has sent no HTTP request at all.
C2_AsClaimed ==
  \A c \in Calls :
    LET st == call[c]
    IN (\E i \in 1..Len(st.log) : ProviderFailed(st.log[i])) =>
         /\ Failed(st)
         /\ Kind(st.outcome.error) = "AuthenticationError"
         /\ Count(st, "fetch") = 0

\* C2 as amended: whenever the provider fails or gives no usable token the
\* operation fails with an AuthenticationError, which is no ApiRequestError,
\* and nothing is sent for or after that acquisition: no HTTP request at all
\* when it was the invocation's first acquisition, and only the WhoAmI
\* request already answered when it was the acquisition for the user lookup.
C2_AuthFailureStops ==
  \A c \in Calls :
    LET st == call[c]
    IN \A i \in 1..Len(st.log) :
         ProviderFailed(st.log[i]) =>
           /\ Failed(st)
           /\ Kind(st.outcome.error) = "AuthenticationError"
           /\ Kind(st.outcome.error) # "ApiRequestError"
           /\ i = Len(st.log)
           /\ \A j \in Events(st, "fetch") : st.log[j].stage < st.log[i].stage
           /\ Count(st, "fetch") =
                (IF st.op = "makeWhoAmIRequest" /\ st.log[i].stage = 2
                   THEN 1 ELSE 0)

C2_Witness ==
  \E c \in Calls :
    /\ call[c].op = "makeWhoAmIRequest"
    /\ Failed(call[c])
    /\ Count(call[c], "fetch") = 1
    /\ ProviderFailed(call[c].log[Len(call[c].log)])
    /\ call[c].log[Len(call[c].log)].kind = "response"

\* C3: every HTTP request comes right after the call to the credential
\* provider made for it and the provider's answer to that call, and carries
\* the token of that answer; so an invocation has sent as many requests as
\* it acquired tokens: one when a single-request operation succeeds, two
\* when a whoami with the user lookup succeeds.
C3_FreshTokenPerRequest ==
  \A c \in Calls :
    LET st == call[c]
    IN /\ \A i \in Events(st, "fetch") :
            /\ i > 2
            /\ st.log[i - 2].ev = "acquire"
            /\ st.log[i - 2].stage = st.log[i].stage
            /\ ProviderGaveToken(st.log[i - 1])
            /\ st.log[i - 1].stage = st.log[i].stage
            /\ st.log[i].headers["Authorization"]
                 = <<"Bearer ", st.log[i - 1].token>>
       /\ st.pc # "awaitToken" =>
            Count(st, "fetch")
              = Cardinality({ i \in Events(st, "token") :
                                ProviderGaveToken(st.log[i]) })
       /\ Succeeded(st) =>
            Count(st, "fetch")
              = (IF st.op = "makeWhoAmIRequest" /\ CarriesUserId(Decoded(st, 1))
                   THEN 2 ELSE 1)

C3_Witness ==
  \E c \in Calls :
    /\ call[c].op = "makeWhoAmIRequest"
    /\ Succeeded(call[c])
    /\ Count(call[c], "fetch") = 2
    /\ call[c].log[2].token # call[c].log[6].token

C5_NoRetry ==
  \A c \in Calls :
    LET st == call[c]
        At(ev, n) == { i \in Events(st, ev) : st.log[i].stage = n }
    IN /\ \A n \in 1..2 : /\ Cardinality(At("acquire", n)) <= 1
                         /\ Cardinality(At("fetch", n)) <= 1
       /\ \A i \in 1..Len(st.log) : st.log[i].stage \in 1..2
       /\ st.op # "makeWhoAmIRequest" =>
            \A i \in 1..Len(st.log) : st.log[i].stage = 1
       /\ st.op \in {"createAccount", "updateAccount"} =>
            Count(st, "fetch") <= 1
       /\ \A i \in 1..Len(st.log) :
            (ProviderFailed(st.log[i]) \/ RequestFailed(st.log[i])) =>
              /\ i = Len(st.log)
              /\ Failed(st)

C5_Witness ==
  \E c \in Calls :
    /\ call[c].op = "createAccount"
    /\ Failed(call[c])
    /\ Count(call[c], "fetch") = 1
    /\ RequestFailed(call[c].log[Len(call[c].log)])

\* C6: a whoami first sends GET api/data/v9.2/WhoAmI; it sends a second
\* request only when the first response was decoded and carries a user
\* identifier, and that request is GET api/data/v9.2/systemusers(<id>) with
\* the Prefer header; without a user identifier it sends one request and
\* returns the first response unchanged; when the second request fails the
\* operation fails with an ApiRequestError, and when it is answered the
\* operation returns the first response with UserName and FullName set from
\* the second response's domainname and fullname.
C6_WhoAmI ==
  \A c \in Calls :
    LET st == call[c]
    IN st.op = "makeWhoAmIRequest" =>
         /\ \A i \in Events(st, "fetch") :
              LET e == st.log[i]
              IN /\ e.method = "GET"
                 /\ e.body = NoText
                 /\ e.stage = 1 =>
                      /\ e.endpoint = <<"api/data/v9.2/WhoAmI">>
                      /\ "Prefer" \notin DOMAIN e.headers
                 /\ e.stage = 2 =>
                      /\ Answered(st, 1)
                      /\ CarriesUserId(Decoded(st, 1))
                      /\ e.endpoint = <<"api/data/v9.2/systemusers(",
                                        UserIdOf(Decoded(st, 1)), ")">>
                      /\ e.headers["Prefer"]
                           = <<"odata.include-annotations=\"*\"">>
         /\ (Answered(st, 1) /\ ~CarriesUserId(Decoded(st, 1))) =>
              /\ Succeeded(st)
              /\ Count(st, "fetch") = 1
              /\ st.outcome.value = Decoded(st, 1)
         /\ (Len(st.log) = 8 /\ RequestFailed(st.log[8])) =>
              /\ Failed(st)
              /\ Kind(st.outcome.error) = "ApiRequestError"
         /\ Answered(st, 2) =>
              /\ Succeeded(st)
              /\ Field(st.outcome.value, "UserName")
                   = Field(Decoded(st, 2), "domainname")
              /\ Field(st.outcome.value, "FullName")
                   = Field(Decoded(st, 2), "fullname")
              /\ \A k \in {"UserId", "BusinessUnitId", "OrganizationId"} :
                   Field(st.outcome.value, k) = Field(Decoded(st, 1), k)

\* C7: an operation that has ended has returned a value or failed with a
\* ValidationError, an AuthenticationError or an ApiRequestError.
C7_OnlyClassifiedFailures ==
  \A c \in Calls :
    Ended(call[c]) =>
      \/ Succeeded(call[c])
      \/ Kind(call[c].outcome.error)
           \in {"ValidationError", "AuthenticationError", "ApiRequestError"}

\* C8: a tool handler always answers with a text payload: with the error's
\* message and isError set when the gateway method failed, and with no error
\* flag when it succeeded.
C8_ToolPayload ==
  \A c \in Calls :
    LET st == call[c]
    IN /\ (Ended(st) /\ st.caller = "tool" /\ st.pc # "responded") =>
            ENABLED ToolRespond(c)
       /\ st.pc = "responded" =>
            /\ st.payload.made
            /\ st.payload.text.defined
            /\ Failed(st) =>
                 /\ st.payload.isError
                 /\ Contains(st.payload.text.text, st.outcome.error.message)
            /\ Succeeded(st) => ~st.payload.isError

\* C9: in every request sent, exactly one slash stands between the
\* configured base URL and the endpoint.
C9_ExactlyOneSlash ==
  \A c \in Calls :
    \A i \in Events(call[c], "fetch") :
      OneSlashBetween(call[c].log[i].url, call[c].log[i].endpoint)

\* C10: updateAccount with an empty account id fails with the account-id
\* message whatever the account data is; with an account id and no account
\* data it fails with the account-data message; it sends a request only when
\* both are given, never more than one, and that request is a PATCH to
\* api/data/v9.2/accounts(<accountId>) whose body is the JSON text of
\* accountData and whose headers are exactly the standard five.
C10_UpdateAccount ==
  \A c \in Calls :
    LET st == call[c]
    IN st.op = "updateAccount" =>
         /\ EmptyId(st.accountId) =>
              /\ Failed(st)
              /\ st.outcome.error.message = <<UpdateIdRequired>>
              /\ st.log = <<>>
         /\ (~EmptyId(st.accountId) /\ AbsentData(st.accountData)) =>
              /\ Failed(st)
              /\ st.outcome.error.message = <<UpdateDataRequired>>
              /\ st.log = <<>>
         /\ Count(st, "fetch") <= 1
         /\ Succeeded(st) => Count(st, "fetch") = 1
         /\ \A i \in Events(st, "fetch") :
              LET e == st.log[i]
              IN /\ ~EmptyId(st.accountId) /\ ~AbsentData(st.accountData)
                 /\ e.method = "PATCH"
                 /\ e.endpoint = <<"api/data/v9.2/accounts(",
                                   st.accountId.s, ")">>
                 /\ Contains(e.url, e.endpoint)
                 /\ e.body.defined
                 /\ ParseJson(e.body.text) = [ok |-> TRUE,
                                              value |-> st.accountData]
                 /\ e.headers =
                      [h \in {"Authorization", "Accept", "Content-Type",
                              "OData-MaxVersion", "OData-Version"} |->
                         CASE h = "Authorization" ->
                                <<"Bearer ", st.log[i - 1].token>>
                           [] h \in {"Accept", "Content-Type"} ->
                                <<"application/json">>
                           [] OTHER -> <<"4.0">>]

C10_Witness ==
  \E c \in Calls :
    /\ call[c].op = "updateAccount"
    /\ call[c].accountId = JStr("acc1")
    /\ Count(call[c], "fetch") = 1
    /\ call[c].log[3].method = "PATCH"
    /\ call[c].log[3].endpoint = <<"api/data/v9.2/accounts(", "acc1", ")">>
    /\ call[c].log[3].body
         = SomeText(<<"{", "\"", "name", "\"", ":", "\"", "X", "\"", "}">>)

\* what the environment gave the invocation, in order: the provider's
\* answers and the API's answers
IsAnswer(e) == e.ev \in {"token", "response"}
Answers(st) == SelectSeq(st.log, IsAnswer)

\* the same method called with the same arguments
SameCall(st, su) ==
  /\ st.op = su.op
  /\ st.accountId = su.accountId
  /\ st.accountData = su.accountData

\* C11: with invocations of one gateway instance interleaved in any order,
\* the identity configuration is never modified, a step of one invocation
\* changes nothing of another, every HTTP request carries the token the
\* provider gave that same invocation for that request, and what an
\* invocation sends and how it ends depend only on its call and on the
\* provider's and the API's answers to it: two invocations of the same call
\* that were given the same answers have sent the same requests and have
\* the same outcome.
C11_NoInterference ==
  /\ [][d365' = d365]_vars
  /\ [][\A c \in Calls :
          call'[c] # call[c] =>
            \A d \in Calls \ {c} : call'[d] = call[d]]_vars
  /\ [](\A c \in Calls :
          \A i \in Events(call[c], "fetch") :
            /\ i > 1
            /\ ProviderGaveToken(call[c].log[i - 1])
            /\ call[c].log[i - 1].stage = call[c].log[i].stage
            /\ call[c].log[i].token = call[c].log[i - 1].token
            /\ call[c].log[i].headers["Authorization"]
                 = <<"Bearer ", call[c].log[i - 1].token>>)
  /\ [](\A c, d \in Calls :
          (/\ call[c].pc # "idle"
           /\ call[d].pc # "idle"
           /\ SameCall(call[c], call[d])
           /\ Answers(call[c]) = Answers(call[d])) =>
            /\ call[c].log = call[d].log
            /\ call[c].outcome = call[d].outcome)

\* both invocations are awaiting the API, each with a token of its own
C11_Witness ==
  /\ Calls = {1, 2}
  /\ call[1].pc = "awaitFetch"
  /\ call[2].pc = "awaitFetch"
  /\ call[1].op = "updateAccount"
  /\ call[2].op = "makeWhoAmIRequest"
  /\ call[2].stage = 2
  /\ call[1].token # call[2].token
====
